---- MODULE Spec2Model ----
(***************************************************************************)
(* Model of src/detection.py: the webcam person-detection loop of main()   *)
(* and the rectangle intersection test is_in_roi.                          *)
(*                                                                         *)
(* Spec    : main() as a state machine, one action per statement group.    *)
(* SpecRoi : is_in_roi applied to every pair of rectangles over a small    *)
(*           coordinate range (malformed rectangles included).             *)
(***************************************************************************)
EXTENDS Integers, Sequences, FiniteSets

(* ----------------------------- bounds ---------------------------------- *)
MaxFrames == 2      \* frames the camera can deliver before the stream ends
MaxBoxes  == 2      \* detections the detector returns for one frame
MaxDetK   == 3      \* detector boxes start at x = 9*i half-pixels, i in 0..MaxDetK
MaxWinK   == 2      \* windows are 36*k pixels wide and high, k in 1..MaxWinK
MaxCoord  == 3      \* rectangle coordinates of SpecRoi are 0..MaxCoord

(* ------------------------- program constants --------------------------- *)
ESC == 27           \* key code compared in the exit test
KeyMask == 256      \* waitKey(1) & 0xFF keeps the value modulo 256

VARIABLES
  pc,          \* position of main()
  capOpened,   \* result of cap.isOpened()
  nOpen,       \* capture handles created by cv2.VideoCapture(0)
  nWindows,    \* windows created by cv2.namedWindow
  nRead,       \* calls of cap.read()
  ret,         \* ret of the last cap.read()
  winW, winH,  \* window_width, window_height of the current iteration
  roi1, roi2, roi3,
  overlays,    \* ROIs drawn on the current frame by draw_roi
  nDetect,     \* calls of model(frame, classes=[0])
  raw,         \* box.xyxy[0] of each box of the result, in half-pixels
  boxIdx,      \* boxes of the result processed so far
  drawn,       \* annotations drawn on the current frame
  nShow,       \* calls of cv2.imshow
  key,         \* value returned by the last cv2.waitKey(1)
  nRelease,    \* calls of cap.release()
  nDestroy,    \* calls of cv2.destroyAllWindows()
  printed,     \* lines printed so far
  firstWin,    \* history: window size of iteration 1
  firstRois,   \* history: roi1, roi2, roi3 of iteration 1
  tpc, tA, tB, rAB, rBA, rAA   \* SpecRoi: arguments and results of is_in_roi

mainVars == <<pc, capOpened, nOpen, nWindows, nRead, ret, winW, winH,
              roi1, roi2, roi3, overlays, nDetect, raw, boxIdx, drawn,
              nShow, key, nRelease, nDestroy, printed, firstWin, firstRois>>
roiVars == <<tpc, tA, tB, rAB, rBA, rAA>>
vars == <<mainVars, roiVars>>

(* ------------------------- pure functions ------------------------------ *)

\* Python int() of the value n/2: truncation toward zero.
IntHalf(n) == IF n >= 0 THEN n \div 2 ELSE -((-n) \div 2)

\* mutants of is_in_roi
is_in_roi_strict(bbox, roi) ==
  ~(bbox[3] <= roi[1] \/ bbox[1] >= roi[3] \/ bbox[4] <= roi[2] \/ bbox[2] >= roi[4])

is_in_roi_edge(bbox, roi) ==
  ~(bbox[3] <= roi[1] \/ bbox[1] > roi[3] \/ bbox[4] <= roi[2] \/ bbox[2] > roi[4])

is_in_roi_typo(bbox, roi) ==
  ~(bbox[3] < roi[1] \/ bbox[1] > roi[1] \/ bbox[4] < roi[2] \/ bbox[2] > roi[4])

is_in_roi_xonly(bbox, roi) ==
  ~(bbox[3] < roi[1] \/ bbox[1] > roi[3])

\* is_in_roi(bbox, roi): bbox = (x1, y1, x2, y2), roi = (roi_x1, roi_y1, roi_x2, roi_y2)
is_in_roi(bbox, roi) ==
  ~(bbox[3] < roi[1] \/ bbox[1] > roi[3] \/ bbox[4] < roi[2] \/ bbox[2] > roi[4])

\* mutant of InAnyRoi: the third ROI is forgotten
InAnyRoi_two(bbox, r1, r2, r3) ==
  is_in_roi(bbox, r1) \/ is_in_roi(bbox, r2)

\* the condition of the if statement that guards the annotation
InAnyRoi(bbox, r1, r2, r3) ==
  is_in_roi(bbox, r1) \/ is_in_roi(bbox, r2) \/ is_in_roi(bbox, r3)

\* The three ROI tuples computed from window_width w and window_height h.
\* The float expressions center_x -/+ roi_width * 1.5 etc. are half-integers,
\* kept here doubled and truncated by int().
Rois(w, h) ==
  LET roi_width   == w \div 12
      roi_height  == h \div 4
      margin      == w \div 20
      center_x    == w \div 4
      box_spacing == roi_width \div 2
  IN  << << IntHalf(2 * center_x - 3 * roi_width - 2 * box_spacing), margin,
            IntHalf(2 * center_x - roi_width - 2 * box_spacing), margin + roi_height >>,
         << IntHalf(2 * center_x - roi_width), margin,
            IntHalf(2 * center_x + roi_width), margin + roi_height >>,
         << IntHalf(2 * center_x + roi_width + 2 * box_spacing), margin,
            IntHalf(2 * center_x + 3 * roi_width + 2 * box_spacing), margin + roi_height >> >>

\* x1, y1, x2, y2 = map(int, box.xyxy[0])
IntBox(xyxy) == << IntHalf(xyxy[1]), IntHalf(xyxy[2]), IntHalf(xyxy[3]), IntHalf(xyxy[4]) >>

(* --------------------------- environment ------------------------------- *)

\* window sizes getWindowImageRect can report, as <<width, height>>
WinSizes == { << 36 * k, 36 * k >> : k \in 1..MaxWinK }

\* xyxy rows the detector can return, in half-pixels (x1 <= x2, y1 <= y2):
\* a point, a vertical segment or a square, at each start position
DetXs == { 9 * i : i \in 0..MaxDetK }
DetShapes == { <<0, 0>>, <<0, 9>>, <<9, 9>> }
RawBoxes == { << x, 0, x + sh[1], sh[2] >> : x \in DetXs, sh \in DetShapes }
RawResults == UNION { [1..n -> RawBoxes] : n \in 0..MaxBoxes }

\* values cv2.waitKey(1) can return: no key, ESC, another key, ESC with high bits
Keys == { -1, ESC, 113, ESC + KeyMask }

NoRoi == <<0, 0, 0, 0>>

(* ------------------------------ main() --------------------------------- *)

MainInit ==
  /\ pc = "open"
  /\ capOpened = FALSE
  /\ nOpen = 0 /\ nWindows = 0 /\ nRead = 0 /\ ret = FALSE
  /\ winW = 0 /\ winH = 0
  /\ roi1 = NoRoi /\ roi2 = NoRoi /\ roi3 = NoRoi
  /\ overlays = <<>>
  /\ nDetect = 0 /\ raw = <<>> /\ boxIdx = 0 /\ drawn = <<>>
  /\ nShow = 0 /\ key = -1
  /\ nRelease = 0 /\ nDestroy = 0
  /\ printed = <<>>
  /\ firstWin = <<0, 0>>
  /\ firstRois = <<NoRoi, NoRoi, NoRoi>>

RoiIdle ==
  /\ tpc = "off" /\ tA = NoRoi /\ tB = NoRoi
  /\ rAB = FALSE /\ rBA = FALSE /\ rAA = FALSE

Init == MainInit /\ RoiIdle

\* mutant of OpenCamera: the return after the diagnostic is missing
OpenCamera_noReturn ==
  /\ pc = "open"
  /\ \E ok \in BOOLEAN :
       /\ capOpened' = ok
       /\ nOpen' = nOpen + 1
       /\ printed' = IF ok THEN printed
                          ELSE Append(printed, "Error: Could not open camera")
       /\ pc' = "window"
  /\ UNCHANGED <<nWindows, nRead, ret, winW, winH, roi1, roi2, roi3, overlays,
                 nDetect, raw, boxIdx, drawn, nShow, key, nRelease, nDestroy,
                 firstWin, firstRois, roiVars>>

\* cap = cv2.VideoCapture(0); if not cap.isOpened(): print(...); return
OpenCamera ==
  /\ pc = "open"
  /\ \E ok \in BOOLEAN :
       /\ capOpened' = ok
       /\ nOpen' = nOpen + 1
       /\ IF ok
            THEN /\ pc' = "window"
                 /\ printed' = printed
            ELSE /\ pc' = "done"
                 /\ printed' = Append(printed, "Error: Could not open camera")
  /\ UNCHANGED <<nWindows, nRead, ret, winW, winH, roi1, roi2, roi3, overlays,
                 nDetect, raw, boxIdx, drawn, nShow, key, nRelease, nDestroy,
                 firstWin, firstRois, roiVars>>

\* cv2.namedWindow / resizeWindow / setWindowProperty
CreateWindow ==
  /\ pc = "window"
  /\ nWindows' = nWindows + 1
  /\ pc' = "read"
  /\ UNCHANGED <<capOpened, nOpen, nRead, ret, winW, winH, roi1, roi2, roi3,
                 overlays, nDetect, raw, boxIdx, drawn, nShow, key, nRelease,
                 nDestroy, printed, firstWin, firstRois, roiVars>>

\* mutant of ReadFrame: a failed read returns from main() instead of breaking
ReadFrame_return ==
  /\ pc = "read"
  /\ \E r \in (IF nRead < MaxFrames THEN BOOLEAN ELSE {FALSE}) :
       /\ ret' = r
       /\ nRead' = nRead + 1
       /\ IF r
            THEN /\ pc' = "rois"
                 /\ printed' = printed
            ELSE /\ pc' = "done"
                 /\ printed' = Append(printed, "Error reading from camera")
  /\ overlays' = <<>> /\ raw' = <<>> /\ boxIdx' = 0 /\ drawn' = <<>>
  /\ UNCHANGED <<capOpened, nOpen, nWindows, winW, winH, roi1, roi2, roi3,
                 nDetect, nShow, key, nRelease, nDestroy, firstWin, firstRois,
                 roiVars>>

\* ret, frame = cap.read(); if not ret: print(...); break
\* A new frame replaces the previous one and everything drawn on it.
ReadFrame ==
  /\ pc = "read"
  /\ \E r \in (IF nRead < MaxFrames THEN BOOLEAN ELSE {FALSE}) :
       /\ ret' = r
       /\ nRead' = nRead + 1
       /\ IF r
            THEN /\ pc' = "rois"
                 /\ printed' = printed
            ELSE /\ pc' = "release"
                 /\ printed' = Append(printed, "Error reading from camera")
  /\ overlays' = <<>> /\ raw' = <<>> /\ boxIdx' = 0 /\ drawn' = <<>>
  /\ UNCHANGED <<capOpened, nOpen, nWindows, winW, winH, roi1, roi2, roi3,
                 nDetect, nShow, key, nRelease, nDestroy, firstWin, firstRois,
                 roiVars>>

\* mutant of ComputeRois: the margin accumulates over the iterations
ComputeRois_drift ==
  /\ pc = "rois"
  /\ \E sz \in WinSizes :
       LET w == sz[1]
           h == sz[2]
           r == Rois(w, h)
           m == nRead - 1
           shift(q) == << q[1], q[2] + m, q[3], q[4] + m >>
       IN  /\ winW' = w /\ winH' = h
           /\ roi1' = shift(r[1]) /\ roi2' = shift(r[2]) /\ roi3' = shift(r[3])
           /\ firstWin' = IF nRead = 1 THEN <<w, h>> ELSE firstWin
           /\ firstRois' = IF nRead = 1
                             THEN <<shift(r[1]), shift(r[2]), shift(r[3])>>
                             ELSE firstRois
  /\ pc' = "draw"
  /\ UNCHANGED <<capOpened, nOpen, nWindows, nRead, ret, overlays, nDetect, raw,
                 boxIdx, drawn, nShow, key, nRelease, nDestroy, printed, roiVars>>

\* window_width / window_height from getWindowImageRect (two calls), then
\* roi1, roi2, roi3 computed from them
ComputeRois ==
  /\ pc = "rois"
  /\ \E sz \in WinSizes :
       LET w == sz[1]
           h == sz[2]
           r == Rois(w, h)
       IN  /\ winW' = w /\ winH' = h
           /\ roi1' = r[1] /\ roi2' = r[2] /\ roi3' = r[3]
           /\ firstWin' = IF nRead = 1 THEN <<w, h>> ELSE firstWin
           /\ firstRois' = IF nRead = 1 THEN r ELSE firstRois
  /\ pc' = "draw"
  /\ UNCHANGED <<capOpened, nOpen, nWindows, nRead, ret, overlays, nDetect, raw,
                 boxIdx, drawn, nShow, key, nRelease, nDestroy, printed, roiVars>>

\* draw_roi(frame, roi): the rectangle that is filled, blended and bordered
draw_roi(frameOverlays, roi) == Append(frameOverlays, roi)

\* draw_roi(frame, roi1..3) and the instruction text
DrawOverlays ==
  /\ pc = "draw"
  /\ overlays' = draw_roi(draw_roi(draw_roi(overlays, roi1), roi2), roi3)
  /\ pc' = "detect"
  /\ UNCHANGED <<capOpened, nOpen, nWindows, nRead, ret, winW, winH, roi1, roi2,
                 roi3, nDetect, raw, boxIdx, drawn, nShow, key, nRelease,
                 nDestroy, printed, firstWin, firstRois, roiVars>>

\* results = model(frame, classes=[0])
Detect ==
  /\ pc = "detect"
  /\ nDetect' = nDetect + 1
  /\ \E res \in RawResults : raw' = res
  /\ boxIdx' = 0
  /\ pc' = "boxes"
  /\ UNCHANGED <<capOpened, nOpen, nWindows, nRead, ret, winW, winH, roi1, roi2,
                 roi3, overlays, drawn, nShow, key, nRelease, nDestroy, printed,
                 firstWin, firstRois, roiVars>>

\* body of `for box in boxes`: the box is annotated if it is in some ROI
ProcessBox ==
  /\ pc = "boxes"
  /\ boxIdx < Len(raw)
  /\ LET bbox == IntBox(raw[boxIdx + 1])
     IN  drawn' = IF InAnyRoi(bbox, roi1, roi2, roi3)
                    THEN Append(drawn, [box |-> bbox,
                                        label |-> <<bbox[1], bbox[2] - 10>>])
                    ELSE drawn
  /\ boxIdx' = boxIdx + 1
  /\ UNCHANGED <<pc, capOpened, nOpen, nWindows, nRead, ret, winW, winH, roi1,
                 roi2, roi3, overlays, nDetect, raw, nShow, key, nRelease,
                 nDestroy, printed, firstWin, firstRois, roiVars>>

\* cv2.imshow('Human Detection', frame), after the last box
ShowFrame ==
  /\ pc = "boxes"
  /\ boxIdx = Len(raw)
  /\ nShow' = nShow + 1
  /\ pc' = "poll"
  /\ UNCHANGED <<capOpened, nOpen, nWindows, nRead, ret, winW, winH, roi1, roi2,
                 roi3, overlays, nDetect, raw, boxIdx, drawn, key, nRelease,
                 nDestroy, printed, firstWin, firstRois, roiVars>>

\* mutant of PollKey: the loop goes on after ESC
PollKey_noBreak ==
  /\ pc = "poll"
  /\ \E k \in Keys : key' = k
  /\ pc' = "read"
  /\ UNCHANGED <<capOpened, nOpen, nWindows, nRead, ret, winW, winH, roi1, roi2,
                 roi3, overlays, nDetect, raw, boxIdx, drawn, nShow, nRelease,
                 nDestroy, printed, firstWin, firstRois, roiVars>>

\* if cv2.waitKey(1) & 0xFF == 27: break
PollKey ==
  /\ pc = "poll"
  /\ \E k \in Keys :
       /\ key' = k
       /\ pc' = IF k % KeyMask = ESC THEN "release" ELSE "read"
  /\ UNCHANGED <<capOpened, nOpen, nWindows, nRead, ret, winW, winH, roi1, roi2,
                 roi3, overlays, nDetect, raw, boxIdx, drawn, nShow, nRelease,
                 nDestroy, printed, firstWin, firstRois, roiVars>>

\* cap.release()
Release ==
  /\ pc = "release"
  /\ nRelease' = nRelease + 1
  /\ pc' = "destroy"
  /\ UNCHANGED <<capOpened, nOpen, nWindows, nRead, ret, winW, winH, roi1, roi2,
                 roi3, overlays, nDetect, raw, boxIdx, drawn, nShow, key,
                 nDestroy, printed, firstWin, firstRois, roiVars>>

\* cv2.destroyAllWindows(); main() returns
DestroyWindows ==
  /\ pc = "destroy"
  /\ nDestroy' = nDestroy + 1
  /\ pc' = "done"
  /\ UNCHANGED <<capOpened, nOpen, nWindows, nRead, ret, winW, winH, roi1, roi2,
                 roi3, overlays, nDetect, raw, boxIdx, drawn, nShow, key,
                 nRelease, printed, firstWin, firstRois, roiVars>>

Next ==
  \/ OpenCamera
  \/ CreateWindow
  \/ ReadFrame
  \/ ComputeRois
  \/ DrawOverlays
  \/ Detect
  \/ ProcessBox
  \/ ShowFrame
  \/ PollKey
  \/ Release
  \/ DestroyWindows

Spec == Init /\ [][Next]_vars

(* ------------------- is_in_roi on arbitrary rectangles ------------------ *)

Coords == 0..MaxCoord
Rects == Coords \X Coords \X Coords \X Coords

MainIdle ==
  /\ pc = "idle"
  /\ capOpened = FALSE
  /\ nOpen = 0 /\ nWindows = 0 /\ nRead = 0 /\ ret = FALSE
  /\ winW = 0 /\ winH = 0
  /\ roi1 = NoRoi /\ roi2 = NoRoi /\ roi3 = NoRoi
  /\ overlays = <<>>
  /\ nDetect = 0 /\ raw = <<>> /\ boxIdx = 0 /\ drawn = <<>>
  /\ nShow = 0 /\ key = -1
  /\ nRelease = 0 /\ nDestroy = 0
  /\ printed = <<>>
  /\ firstWin = <<0, 0>>
  /\ firstRois = <<NoRoi, NoRoi, NoRoi>>

InitRoi ==
  /\ MainIdle
  /\ tpc = "ab"
  /\ tA \in Rects /\ tB \in Rects
  /\ rAB = FALSE /\ rBA = FALSE /\ rAA = FALSE

\* is_in_roi(A, B)
CallAB ==
  /\ tpc = "ab"
  /\ rAB' = is_in_roi(tA, tB)
  /\ tpc' = "ba"
  /\ UNCHANGED <<mainVars, tA, tB, rBA, rAA>>

\* is_in_roi(B, A)
CallBA ==
  /\ tpc = "ba"
  /\ rBA' = is_in_roi(tB, tA)
  /\ tpc' = "aa"
  /\ UNCHANGED <<mainVars, tA, tB, rAB, rAA>>

\* is_in_roi(A, A)
CallAA ==
  /\ tpc = "aa"
  /\ rAA' = is_in_roi(tA, tA)
  /\ tpc' = "done"
  /\ UNCHANGED <<mainVars, tA, tB, rAB, rBA>>

NextRoi == CallAB \/ CallBA \/ CallAA

SpecRoi == InitRoi /\ [][NextRoi]_vars

(* ------------------------------ claims --------------------------------- *)

InLoopBody == pc \in {"draw", "detect", "boxes", "poll"}
ReadFailed == nRead > 0 /\ ret = FALSE
EscPolled == key % KeyMask = ESC
CurrentRois == <<roi1, roi2, roi3>>

\* C1: on a run that entered the frame loop, once main() has returned the
\* capture device was released exactly once and the windows were destroyed
\* exactly once, after ESC as well as after a failed read; neither is ever
\* done twice.
C1_ReleasedExactlyOnce ==
  /\ nRelease <= 1 /\ nDestroy <= 1
  /\ (pc = "done" /\ nRead > 0) => (nRelease = 1 /\ nDestroy = 1)
  /\ (pc = "done" /\ EscPolled) => (nRelease = 1 /\ nDestroy = 1)
  /\ (pc = "done" /\ ReadFailed) => (nRelease = 1 /\ nDestroy = 1)

C1_Witness ==
  pc = "done" /\ EscPolled /\ ret = TRUE /\ nRead = 2 /\ nRelease = 1 /\ nDestroy = 1

\* C2: when main() has returned, every capture handle created by
\* cv2.VideoCapture(0) has been released, whichever failure ended the run.
C2_HandleReleasedBeforeReturn ==
  pc = "done" => nRelease = nOpen

\* C3: if the capture device fails to open, main() prints the diagnostic and
\* returns: no window is created, the loop is not entered, no frame is read,
\* overlaid, passed to the detector or shown.
C3_OpenFailureReturnsAtOnce ==
  (pc # "open" /\ ~capOpened) =>
    /\ pc = "done"
    /\ printed = << "Error: Could not open camera" >>
    /\ nWindows = 0 /\ nRead = 0 /\ nDetect = 0 /\ nShow = 0
    /\ overlays = <<>> /\ drawn = <<>>

C3_Witness ==
  pc = "done" /\ ~capOpened /\ nOpen = 1 /\ Len(printed) = 1

\* C4 as stated: the ROI tuples used in any iteration equal those of iteration 1.
C4_RoisFixedForSession ==
  InLoopBody => CurrentRois = firstRois

\* C4 amended: the ROI tuples of an iteration are those of iteration 1 whenever
\* the window size read in that iteration equals the one read in iteration 1.
C4_RoisFollowWindowSize ==
  (InLoopBody /\ <<winW, winH>> = firstWin) => CurrentRois = firstRois

C4_Witness ==
  pc = "boxes" /\ nRead = 2 /\ <<winW, winH>> = firstWin /\ CurrentRois = firstRois

\* detections of the current frame processed so far that intersect some ROI
InScopeIdx ==
  { i \in 1..boxIdx : \E r \in {roi1, roi2, roi3} : is_in_roi(IntBox(raw[i]), r) }

\* C5: the boxes annotated in a frame are exactly the detections that
\* is_in_roi accepts against at least one of roi1, roi2, roi3, each drawn once
\* with its label; at the time the frame is shown this covers every detection.
C5_DrawnIffInSomeRoi ==
  (pc \in {"boxes", "poll"}) =>
    /\ (pc = "poll" => boxIdx = Len(raw))
    /\ { drawn[j].box : j \in 1..Len(drawn) } = { IntBox(raw[i]) : i \in InScopeIdx }
    /\ Len(drawn) = Cardinality(InScopeIdx)
    /\ \A j \in 1..Len(drawn) :
         drawn[j].label = << drawn[j].box[1], drawn[j].box[2] - 10 >>

C5_Witness ==
  /\ pc = "poll" /\ Len(raw) = 2 /\ Len(drawn) = 1
  /\ is_in_roi(drawn[1].box, roi3)
  /\ ~is_in_roi(drawn[1].box, roi1) /\ ~is_in_roi(drawn[1].box, roi2)

WellFormed(r) == r[1] <= r[3] /\ r[2] <= r[4]

\* C6 as stated: is_in_roi(A, A) is true for any four coordinates.
C6_SelfIntersectsAlways ==
  tpc = "done" => rAA = TRUE

\* C6 amended: is_in_roi(A, A) is true exactly when x1 <= x2 and y1 <= y2.
C6_SelfIntersectsIffWellFormed ==
  tpc = "done" => (rAA <=> WellFormed(tA))

C6_Witness ==
  tpc = "done" /\ rAA /\ tA[1] = tA[3] /\ tA[2] < tA[4]

\* C7: is_in_roi(A, B) = is_in_roi(B, A) for all rectangles, malformed included.
C7_Symmetric ==
  tpc \in {"aa", "done"} => rAB = rBA

C7_Witness ==
  tpc = "done" /\ rAB /\ rBA /\ tA # tB /\ tA[1] < tB[1] /\ ~WellFormed(tB)

\* the edge coordinates the two rectangles share: a right edge on a left edge,
\* a bottom edge on a top edge
SharedEdges(a, b) ==
  { e \in {"a_right_b_left", "b_right_a_left", "a_bottom_b_top", "b_bottom_a_top"} :
      \/ e = "a_right_b_left" /\ a[3] = b[1]
      \/ e = "b_right_a_left" /\ b[3] = a[1]
      \/ e = "a_bottom_b_top" /\ a[4] = b[2]
      \/ e = "b_bottom_a_top" /\ b[4] = a[2] }

XOverlap(a, b) == a[1] <= b[3] /\ b[1] <= a[3]
YOverlap(a, b) == a[2] <= b[4] /\ b[2] <= a[4]

\* C8 as stated: two rectangles that share exactly one edge coordinate intersect.
C8_SharedEdgeIntersects ==
  (tpc \in {"ba", "aa", "done"} /\ WellFormed(tA) /\ WellFormed(tB)
     /\ Cardinality(SharedEdges(tA, tB)) = 1) => rAB = TRUE

\* C8 amended: two well-formed rectangles that share an edge coordinate on one
\* axis and whose closed intervals on the other axis overlap intersect.
C8_TouchingIntersects ==
  (tpc \in {"ba", "aa", "done"} /\ WellFormed(tA) /\ WellFormed(tB)
     /\ \/ (tA[3] = tB[1] \/ tB[3] = tA[1]) /\ YOverlap(tA, tB)
        \/ (tA[4] = tB[2] \/ tB[4] = tA[2]) /\ XOverlap(tA, tB)) => rAB = TRUE

C8_Witness ==
  /\ tpc = "done" /\ rAB
  /\ tA[1] < tA[3] /\ tA[3] = tB[1] /\ tB[1] < tB[3]
  /\ tA[2] < tA[4] /\ tB[2] < tB[4] /\ tA[2] < tB[4] /\ tB[2] < tA[4]

PositiveGap(a, b) == a[3] < b[1] \/ b[3] < a[1] \/ a[4] < b[2] \/ b[4] < a[2]

\* C9: for well-formed rectangles is_in_roi is false when there is a positive
\* gap on some axis and true when the closed x-intervals and the closed
\* y-intervals both overlap; (10,10,50,50) against (40,40,100,100) is true and
\* (0,0,10,10) against (20,20,30,30) is false.
C9_GapFalseOverlapTrue ==
  /\ (tpc \in {"ba", "aa", "done"} /\ WellFormed(tA) /\ WellFormed(tB)) =>
       /\ PositiveGap(tA, tB) => rAB = FALSE
       /\ (XOverlap(tA, tB) /\ YOverlap(tA, tB)) => rAB = TRUE
  /\ is_in_roi(<<10, 10, 50, 50>>, <<40, 40, 100, 100>>) = TRUE
  /\ is_in_roi(<<0, 0, 10, 10>>, <<20, 20, 30, 30>>) = FALSE

C9_Witness ==
  /\ tpc = "done" /\ rAB = FALSE
  /\ WellFormed(tA) /\ WellFormed(tB)
  /\ XOverlap(tA, tB) /\ tA[4] < tB[2]

\* C10: a frame whose read failed is not overlaid, detected on or shown, and
\* once a read has failed or ESC has been polled no frame is read, overlaid,
\* detected on or shown any more: the only steps left are the release of the
\* capture device and the destruction of the windows.
C10_TerminatingIsTerminal ==
  /\ [](ReadFailed => (overlays = <<>> /\ raw = <<>> /\ drawn = <<>>
                        /\ nDetect = nRead - 1 /\ nShow = nRead - 1))
  /\ [][(ReadFailed \/ EscPolled) =>
          /\ nRead' = nRead /\ nDetect' = nDetect /\ nShow' = nShow
          /\ overlays' = overlays /\ drawn' = drawn
          /\ \/ pc = "release" /\ pc' = "destroy" /\ nRelease' = nRelease + 1
             \/ pc = "destroy" /\ pc' = "done" /\ nDestroy' = nDestroy + 1]_vars

C10_Witness ==
  pc = "done" /\ ReadFailed /\ nRead = 2 /\ nShow = 1 /\ nRelease = 1 /\ nDestroy = 1

====
